---- MODULE Spec2Model ----
(***************************************************************************)
(* Model of dopler.py: the Doppler Ultrasound Analyzer.                    *)
(*                                                                         *)
(* The script is a Streamlit page: every interaction with a widget re-runs *)
(* the whole script, which reads the widgets and rebuilds the result       *)
(* table.  The state is the widgets' values and the table the last run     *)
(* produced.  Two specifications:                                          *)
(*   Spec    the page (manual entry and CSV upload);                       *)
(*   SpecFn  the four calculation functions applied to bounded inputs.     *)
(*                                                                         *)
(* Numbers are exact rationals n/d (d > 0, lowest terms); Python's None,   *)
(* the float NaN and raised exceptions are distinct tagged values.         *)
(* Rounding of IEEE doubles is not modelled.                               *)
(***************************************************************************)
EXTENDS Integers, Sequences, FiniteSets, TLC

VARIABLES input_option, widgets, uploaded_file, results, data,
          fn, arg1, arg2, ret, ret_label

vars == <<input_option, widgets, uploaded_file, results, data,
          fn, arg1, arg2, ret, ret_label>>

appVars == <<input_option, widgets, uploaded_file, results, data>>
fnVars == <<fn, arg1, arg2, ret, ret_label>>

(***************************************************************************)
(* Values                                                                  *)
(***************************************************************************)
None == [tag |-> "None", n |-> 0, d |-> 1]
NaN == [tag |-> "NaN", n |-> 0, d |-> 1]
TypeError == [tag |-> "TypeError", n |-> 0, d |-> 1]
ZeroDivisionError == [tag |-> "ZeroDivisionError", n |-> 0, d |-> 1]

Abs(x) == IF x < 0 THEN -x ELSE x

RECURSIVE GCD(_, _)
GCD(a, b) == IF b = 0 THEN a ELSE GCD(b, a % b)

\* the rational n/d in lowest terms with a positive denominator (d # 0)
Num(n, d) ==
    LET g == GCD(Abs(n), Abs(d))
        s == IF d < 0 THEN -1 ELSE 1
    IN  [tag |-> "num", n |-> (s * n) \div g, d |-> (s * d) \div g]

Float(i) == Num(i, 1)

IsNum(x) == x.tag = "num"
IsRaised(x) == x.tag \in {"TypeError", "ZeroDivisionError"}
IsFloat(x) == x.tag \in {"num", "NaN"}

\* x > y and x >= y on floats: any comparison with NaN is False
Gt(x, y) == IsNum(x) /\ IsNum(y) /\ x.n * y.d > y.n * x.d
Ge(x, y) == IsNum(x) /\ IsNum(y) /\ x.n * y.d >= y.n * x.d

\* x / y
Div(x, y) ==
    IF IsRaised(x) THEN x
    ELSE IF IsRaised(y) THEN y
    ELSE IF x.tag = "None" \/ y.tag = "None" THEN TypeError
    ELSE IF x.tag = "NaN" \/ y.tag = "NaN" THEN NaN
    ELSE IF y.n = 0 THEN ZeroDivisionError
    ELSE Num(x.n * y.d, x.d * y.n)

\* x + y
Add(x, y) ==
    IF IsRaised(x) THEN x
    ELSE IF IsRaised(y) THEN y
    ELSE IF x.tag = "None" \/ y.tag = "None" THEN TypeError
    ELSE IF x.tag = "NaN" \/ y.tag = "NaN" THEN NaN
    ELSE Num(x.n * y.d + y.n * x.d, x.d * y.d)

\* x * y
Mul(x, y) ==
    IF IsRaised(x) THEN x
    ELSE IF IsRaised(y) THEN y
    ELSE IF x.tag = "None" \/ y.tag = "None" THEN TypeError
    ELSE IF x.tag = "NaN" \/ y.tag = "NaN" THEN NaN
    ELSE Num(x.n * y.n, x.d * y.d)

(***************************************************************************)
(* Functions for Calculations                                              *)
(***************************************************************************)
ratios_ge(psv_ica, psv_cca) ==
    IF psv_cca.tag = "None" THEN TypeError
    ELSE IF Ge(psv_cca, Float(0)) THEN Div(psv_ica, psv_cca)
    ELSE None

calculate_ratios(psv_ica, psv_cca) ==
    IF psv_cca.tag = "None" THEN TypeError
    ELSE IF Gt(psv_cca, Float(0)) THEN Div(psv_ica, psv_cca)
    ELSE None

mean_velocity_unweighted(psv, edv) ==
    IF psv.tag = "None" THEN TypeError
    ELSE IF ~Gt(psv, Float(0)) THEN None
    ELSE IF edv.tag = "None" THEN TypeError
    ELSE IF Ge(edv, Float(0)) THEN Div(Add(psv, edv), Float(3))
    ELSE None

calculate_mean_velocity(psv, edv) ==
    IF psv.tag = "None" THEN TypeError
    ELSE IF ~Gt(psv, Float(0)) THEN None
    ELSE IF edv.tag = "None" THEN TypeError
    ELSE IF Ge(edv, Float(0)) THEN Div(Add(psv, Mul(Float(2), edv)), Float(3))
    ELSE None

lindegaard_no_none_check(mean_acm, psv_cca) ==
    IF psv_cca.tag = "None" THEN TypeError
    ELSE IF Gt(psv_cca, Float(0)) THEN Div(mean_acm, psv_cca)
    ELSE None

calculate_lindegaard_ratio(mean_acm, psv_cca) ==
    IF mean_acm = None THEN None
    ELSE IF psv_cca.tag = "None" THEN TypeError
    ELSE IF Gt(psv_cca, Float(0)) THEN Div(mean_acm, psv_cca)
    ELSE None

Invalid == "Invalid data: cannot interpret ratio."
Severe == "Severe Stenosis (>70%)"
Moderate == "Moderate Stenosis (50-69%)"
Normal == "Normal"
Labels == {Invalid, Severe, Moderate, Normal}

interpret_ratio_ge(ratio) ==
    IF ratio = None THEN Invalid
    ELSE IF Ge(ratio, Float(4)) THEN Severe
    ELSE IF Ge(ratio, Float(2)) THEN Moderate
    ELSE Normal

interpret_ratio(ratio) ==
    IF ratio = None THEN Invalid
    ELSE IF Gt(ratio, Float(4)) THEN Severe
    ELSE IF Gt(ratio, Float(2)) THEN Moderate
    ELSE Normal

(***************************************************************************)
(* pandas                                                                  *)
(***************************************************************************)
\* A Series is a sequence of cells; a DataFrame maps column names to Series
\* of one length.

\* Construction of a column from Python objects: if any cell is a float the
\* column is float64 and every None in it becomes NaN; a column of None only
\* stays an object column holding None.
Series(cells) ==
    IF \E i \in DOMAIN cells : IsFloat(cells[i])
    THEN [i \in DOMAIN cells |-> IF cells[i] = None THEN NaN ELSE cells[i]]
    ELSE cells

\* number of rows of a DataFrame
NRows(df) == Len(df[CHOOSE c \in DOMAIN df : TRUE])

\* the row handed to the function of DataFrame.apply(axis=1)
Row(df, i) == [c \in DOMAIN df |-> df[c][i]]

\* df.apply(f, axis=1): perRow[i] is f(Row(df, i)); the results are
\* collected, in row order, into a new Series
DataFrameApply(df, perRow) == Series([i \in 1..NRows(df) |-> perRow[i]])

\* series.apply(interpret_ratio): the cells are mapped one by one and the
\* result is a column of strings
SeriesApplyInterpret(series) ==
    [i \in DOMAIN series |-> interpret_ratio(series[i])]

\* df[name] = column
SetColumn(df, name, column) ==
    [c \in DOMAIN df \cup {name} |-> IF c = name THEN column ELSE df[c]]

(***************************************************************************)
(* Manual Entry                                                            *)
(***************************************************************************)
\* the number inputs that feed the result table (the four EDV inputs of ICA
\* and CCA only feed the charts)
Keys == {"psv_ica_r", "psv_cca_r", "psv_acm_r", "edv_acm_r",
         "psv_ica_l", "psv_cca_l", "psv_acm_l", "edv_acm_l"}

\* values a number input takes (min_value=0.0), per input
ManualVals == [k \in Keys |->
                 CASE k \in {"psv_ica_r", "psv_ica_l"} -> {0, 100, 180}
                   [] k \in {"psv_cca_r", "psv_cca_l"} -> {0, 40}
                   [] k \in {"psv_acm_r", "psv_acm_l"} -> {0, 100}
                   [] k \in {"edv_acm_r", "edv_acm_l"} -> {0, 40}]

\* default of every number input: its min_value
DefaultWidgets == [k \in Keys |-> Float(0)]

\* lines 77-94: the manual-entry result table for the widgets' values w
ManualResults(w) ==
    LET ratio == Series(<<calculate_ratios(w["psv_ica_r"], w["psv_cca_r"]),
                          calculate_ratios(w["psv_ica_l"], w["psv_cca_l"])>>)
        mean == Series(<<calculate_mean_velocity(w["psv_acm_r"], w["edv_acm_r"]),
                         calculate_mean_velocity(w["psv_acm_l"], w["edv_acm_l"])>>)
        lind == Series(<<calculate_lindegaard_ratio(
                             calculate_mean_velocity(w["psv_acm_r"], w["edv_acm_r"]),
                             w["psv_cca_r"]),
                         calculate_lindegaard_ratio(
                             calculate_mean_velocity(w["psv_acm_l"], w["edv_acm_l"]),
                             w["psv_cca_l"])>>)
        frame == [c \in {"Side", "ICA/CCA Ratio", "MCA Mean Velocity",
                         "Lindegaard Ratio"} |->
                    CASE c = "Side" -> <<"Right", "Left">>
                      [] c = "ICA/CCA Ratio" -> ratio
                      [] c = "MCA Mean Velocity" -> mean
                      [] c = "Lindegaard Ratio" -> lind]
    IN  SetColumn(frame, "Interpretation",
                  SeriesApplyInterpret(frame["ICA/CCA Ratio"]))

(***************************************************************************)
(* Upload CSV                                                              *)
(***************************************************************************)
MaxRows == 2

InputColumns == {"PSV_ICA", "PSV_CCA", "PSV_MCA", "EDV_MCA"}

\* values of the cells of an uploaded file, per column
CsvVals == [c \in InputColumns |->
              CASE c = "PSV_ICA" -> {100, 180}
                [] c = "PSV_CCA" -> {-1, 0, 40}
                [] c = "PSV_MCA" -> {0, 100}
                [] c = "EDV_MCA" -> {-1, 40}]

\* the records of a CSV file: one integer per input column
CsvRecords == {r \in [InputColumns -> {-1, 0, 40, 100, 180}] :
                 \A c \in InputColumns : r[c] \in CsvVals[c]}

\* the files a user uploads: 1..MaxRows records
RECURSIVE SeqsOfLen(_, _)
SeqsOfLen(S, k) ==
    IF k = 0 THEN {<<>>}
    ELSE {Append(s, x) : s \in SeqsOfLen(S, k - 1), x \in S}

CsvFiles == UNION {SeqsOfLen(CsvRecords, k) : k \in 1..MaxRows}

\* no file in the uploader
NoFile == <<>>
\* a table the last run did not build
NoTable == <<>>

read_csv_reversed(file) ==
    [c \in InputColumns |->
        [i \in 1..Len(file) |-> Float(file[Len(file) + 1 - i][c])]]

\* pd.read_csv: the records become the rows of a DataFrame, in file order
read_csv(file) ==
    [c \in InputColumns |-> [i \in 1..Len(file) |-> Float(file[i][c])]]

\* line 148: the Lindegaard column, from the stored mean column
BatchLindegaard(d2) ==
    DataFrameApply(d2, [i \in 1..NRows(d2) |->
        LET row == Row(d2, i) IN
        calculate_lindegaard_ratio(row["MCA Mean Velocity"], row["PSV_CCA"])])

\* lines 142-149: the batch result table of an uploaded file
BatchData(file) ==
    LET d0 == read_csv(file)
        d1 == SetColumn(d0, "ICA/CCA Ratio",
                 DataFrameApply(d0, [i \in 1..NRows(d0) |->
                     LET row == Row(d0, i) IN
                     calculate_ratios(row["PSV_ICA"], row["PSV_CCA"])]))
        d2 == SetColumn(d1, "MCA Mean Velocity",
                 DataFrameApply(d1, [i \in 1..NRows(d1) |->
                     LET row == Row(d1, i) IN
                     calculate_mean_velocity(row["PSV_MCA"], row["EDV_MCA"])]))
        d3 == SetColumn(d2, "Lindegaard Ratio", BatchLindegaard(d2))
    IN  SetColumn(d3, "Interpretation",
                  SeriesApplyInterpret(d3["ICA/CCA Ratio"]))

(***************************************************************************)
(* The page                                                                *)
(***************************************************************************)
\* first run of the script: the radio shows its first option, every number
\* input its default
InitApp ==
    /\ input_option = "Manual Entry"
    /\ widgets = DefaultWidgets
    /\ uploaded_file = NoFile
    /\ results = ManualResults(DefaultWidgets)
    /\ data = NoTable

InitFnIdle ==
    /\ fn = "none"
    /\ arg1 = None
    /\ arg2 = None
    /\ ret = None
    /\ ret_label = ""

Init == InitApp /\ InitFnIdle

\* the user edits one number input; the script re-runs (lines 55-94)
NumberInput ==
    /\ input_option = "Manual Entry"
    /\ \E k \in Keys : \E v \in ManualVals[k] :
          /\ widgets' = [widgets EXCEPT ![k] = Float(v)]
          /\ results' = ManualResults(widgets')
    /\ UNCHANGED <<input_option, uploaded_file, data, fnVars>>

\* the user picks "Upload CSV": the number inputs are no longer rendered,
\* the uploader is empty, no table is built (lines 138-141)
ChooseUpload ==
    /\ input_option = "Manual Entry"
    /\ input_option' = "Upload CSV"
    /\ widgets' = DefaultWidgets
    /\ uploaded_file' = NoFile
    /\ results' = NoTable
    /\ data' = NoTable
    /\ UNCHANGED fnVars

\* the user picks "Manual Entry": the uploader is no longer rendered, the
\* number inputs show their defaults (lines 55-94)
ChooseManual ==
    /\ input_option = "Upload CSV"
    /\ input_option' = "Manual Entry"
    /\ widgets' = DefaultWidgets
    /\ uploaded_file' = NoFile
    /\ results' = ManualResults(DefaultWidgets)
    /\ data' = NoTable
    /\ UNCHANGED fnVars

\* the user uploads a file into the empty uploader; the script re-runs
\* (lines 138-150).  Replacing a file is RemoveFile followed by UploadCSV.
UploadCSV ==
    /\ input_option = "Upload CSV"
    /\ uploaded_file = NoFile
    /\ \E file \in CsvFiles :
          /\ uploaded_file' = file
          /\ data' = BatchData(file)
    /\ UNCHANGED <<input_option, widgets, results, fnVars>>

\* the user removes the file from the uploader (line 141 is false)
RemoveFile ==
    /\ input_option = "Upload CSV"
    /\ uploaded_file # NoFile
    /\ uploaded_file' = NoFile
    /\ data' = NoTable
    /\ UNCHANGED <<input_option, widgets, results, fnVars>>

Next == NumberInput \/ ChooseUpload \/ ChooseManual \/ UploadCSV \/ RemoveFile

Spec == Init /\ [][Next]_vars

(***************************************************************************)
(* The calculation functions on their own                                  *)
(***************************************************************************)
\* arguments handed to the functions: None, NaN, integers around the
\* guards and thresholds, and the ratios 2.01, 4.01 and 4.5
FnVals == {None, NaN} \cup {Float(i) : i \in {-1, 0, 1, 2, 4, 40, 60, 100, 180}}
          \cup {Num(201, 100), Num(401, 100), Num(9, 2)}

InitFn ==
    /\ InitApp
    /\ fn = "none"
    /\ arg1 \in FnVals
    /\ arg2 \in FnVals
    /\ ret = None
    /\ ret_label = ""

CallRatios ==
    /\ fn = "none"
    /\ fn' = "calculate_ratios"
    /\ ret' = calculate_ratios(arg1, arg2)
    /\ UNCHANGED <<arg1, arg2, ret_label, appVars>>

CallMeanVelocity ==
    /\ fn = "none"
    /\ fn' = "calculate_mean_velocity"
    /\ ret' = calculate_mean_velocity(arg1, arg2)
    /\ UNCHANGED <<arg1, arg2, ret_label, appVars>>

CallLindegaard ==
    /\ fn = "none"
    /\ fn' = "calculate_lindegaard_ratio"
    /\ ret' = calculate_lindegaard_ratio(arg1, arg2)
    /\ UNCHANGED <<arg1, arg2, ret_label, appVars>>

CallInterpret ==
    /\ fn = "none"
    /\ fn' = "interpret_ratio"
    /\ ret_label' = interpret_ratio(arg1)
    /\ UNCHANGED <<arg1, arg2, ret, appVars>>

NextFn == CallRatios \/ CallMeanVelocity \/ CallLindegaard \/ CallInterpret

SpecFn == InitFn /\ [][NextFn]_vars

(***************************************************************************)
(* Properties of the calculation functions (SpecFn)                        *)
(***************************************************************************)

\* C2: interpret_ratio returns exactly one of the four labels: Invalid for
\* None, Severe for a ratio > 4, Moderate for 2 < ratio <= 4, Normal for
\* ratio <= 2; exactly 4 is Moderate and exactly 2 is Normal.
C2_InterpretRules ==
    fn = "interpret_ratio" =>
        /\ ret_label \in Labels
        /\ arg1 = None => ret_label = Invalid
        /\ IsNum(arg1) =>
              /\ ret_label # Invalid
              /\ (arg1.n > 4 * arg1.d) <=> (ret_label = Severe)
              /\ (arg1.n > 2 * arg1.d /\ arg1.n <= 4 * arg1.d)
                    <=> (ret_label = Moderate)
              /\ (arg1.n <= 2 * arg1.d) <=> (ret_label = Normal)

C2_Witness ==
    /\ fn = "interpret_ratio"
    /\ arg1 = Float(4)
    /\ ret_label = Moderate

\* C3: calculate_ratios returns None for every psv_cca <= 0 whatever
\* psv_ica is, and exactly psv_ica / psv_cca for psv_cca > 0, psv_ica >= 0.
C3_RatioContract ==
    fn = "calculate_ratios" /\ IsNum(arg2) =>
        /\ arg2.n <= 0 => ret = None
        /\ (arg2.n > 0 /\ IsNum(arg1) /\ arg1.n >= 0) =>
              /\ IsNum(ret)
              /\ ret.n * arg1.d * arg2.n = arg1.n * arg2.d * ret.d

C3_Witness ==
    /\ fn = "calculate_ratios"
    /\ arg1 = Float(180)
    /\ arg2 = Float(0)
    /\ ret = None

\* C4: calculate_mean_velocity returns (psv + 2*edv) / 3 for psv > 0 and
\* edv >= 0 (60 for 100 and 40) and None for psv <= 0 or edv < 0.
C4_MeanVelocityContract ==
    fn = "calculate_mean_velocity" /\ IsNum(arg1) /\ IsNum(arg2) =>
        /\ (arg1.n > 0 /\ arg2.n >= 0) =>
              /\ IsNum(ret)
              /\ 3 * ret.n * arg1.d * arg2.d
                    = (arg1.n * arg2.d + 2 * arg2.n * arg1.d) * ret.d
        /\ (arg1.n <= 0 \/ arg2.n < 0) => ret = None
        /\ (arg1 = Float(100) /\ arg2 = Float(40)) => ret = Float(60)

C4_Witness ==
    /\ fn = "calculate_mean_velocity"
    /\ arg1 = Float(100)
    /\ arg2 = Float(40)
    /\ ret = Float(60)

\* C5: calculate_lindegaard_ratio returns None for a None mean whatever
\* psv_cca is, without raising; for a mean that is None or a number it
\* returns a number, mean / psv_cca, iff the mean is a number and
\* psv_cca > 0.
C5_LindegaardContract ==
    fn = "calculate_lindegaard_ratio" =>
        /\ arg1 = None => ret = None
        /\ (arg1 # NaN /\ IsNum(arg2)) =>
              /\ ~IsRaised(ret)
              /\ IsNum(ret) <=> (IsNum(arg1) /\ arg2.n > 0)
              /\ IsNum(ret) => ret.n * arg1.d * arg2.n = arg1.n * arg2.d * ret.d
              /\ ~IsNum(ret) => ret = None

C5_Witness ==
    /\ fn = "calculate_lindegaard_ratio"
    /\ arg1 = None
    /\ arg2 = Float(40)
    /\ ret = None

(***************************************************************************)
(* Properties of the result tables (Spec)                                  *)
(***************************************************************************)
\* the derived columns holding floats, and all derived columns
NumericDerived == {"ICA/CCA Ratio", "MCA Mean Velocity", "Lindegaard Ratio"}
AllDerived == NumericDerived \cup {"Interpretation"}

ManualShown == input_option = "Manual Entry"
BatchShown == input_option = "Upload CSV" /\ uploaded_file # NoFile

\* the widgets of side i (1 Right, 2 Left) as the fields of a record
WidgetRecord(w, i) ==
    [c \in InputColumns |->
        CASE c = "PSV_ICA" -> w[IF i = 1 THEN "psv_ica_r" ELSE "psv_ica_l"]
          [] c = "PSV_CCA" -> w[IF i = 1 THEN "psv_cca_r" ELSE "psv_cca_l"]
          [] c = "PSV_MCA" -> w[IF i = 1 THEN "psv_acm_r" ELSE "psv_acm_l"]
          [] c = "EDV_MCA" -> w[IF i = 1 THEN "edv_acm_r" ELSE "edv_acm_l"]]

\* the mean velocity and Lindegaard ratio of one row's own fields
OwnMean(r) == calculate_mean_velocity(r["PSV_MCA"], r["EDV_MCA"])
OwnLindegaard(r) == calculate_lindegaard_ratio(OwnMean(r), r["PSV_CCA"])

\* C1: in both tables a row with PSV_CCA = 0 has the ratio None and the
\* Interpretation "Invalid data: cannot interpret ratio.", and a row with
\* PSV_ICA = 180, PSV_CCA = 40 has the ratio 4.5 and "Severe Stenosis (>70%)".
C1_RowInterpretation ==
    /\ ManualShown =>
          \A i \in 1..2 :
             LET r == WidgetRecord(widgets, i) IN
             /\ r["PSV_CCA"] = Float(0) =>
                   /\ results["ICA/CCA Ratio"][i] = None
                   /\ results["Interpretation"][i] = Invalid
             /\ (r["PSV_ICA"] = Float(180) /\ r["PSV_CCA"] = Float(40)) =>
                   /\ results["ICA/CCA Ratio"][i] = Num(9, 2)
                   /\ results["Interpretation"][i] = Severe
    /\ BatchShown =>
          \A i \in 1..Len(uploaded_file) :
             LET r == Row(data, i) IN
             /\ r["PSV_CCA"] = Float(0) =>
                   /\ r["ICA/CCA Ratio"] = None
                   /\ r["Interpretation"] = Invalid
             /\ (r["PSV_ICA"] = Float(180) /\ r["PSV_CCA"] = Float(40)) =>
                   /\ r["ICA/CCA Ratio"] = Num(9, 2)
                   /\ r["Interpretation"] = Severe

\* C6: every derived numeric cell of either table is a number or None,
\* never NaN, and a row whose ratio is not a number is labelled Invalid.
C6_NoMaskedUndefined ==
    /\ ManualShown =>
          \A i \in 1..2 :
             /\ \A c \in NumericDerived : results[c][i].tag \in {"num", "None"}
             /\ ~IsNum(results["ICA/CCA Ratio"][i])
                   => results["Interpretation"][i] = Invalid
    /\ BatchShown =>
          \A i \in 1..Len(uploaded_file) :
             /\ \A c \in NumericDerived : data[c][i].tag \in {"num", "None"}
             /\ ~IsNum(data["ICA/CCA Ratio"][i])
                   => data["Interpretation"][i] = Invalid

\* C7: the derived fields of a batch row are those the row gets when it is
\* uploaded alone, and no cell holds a raised exception.
C7_RowIndependent ==
    BatchShown =>
        \A i \in 1..Len(uploaded_file) :
           LET alone == BatchData(<<uploaded_file[i]>>) IN
           /\ \A c \in AllDerived : data[c][i] = alone[c][1]
           /\ \A c \in NumericDerived : ~IsRaised(data[c][i])

\* C9: in batch mode every row's Lindegaard Ratio is
\* calculate_lindegaard_ratio(calculate_mean_velocity(PSV_MCA, EDV_MCA),
\* PSV_CCA) on the row's own fields: mean / PSV_CCA or None.
C9_BatchLindegaardOwnRow ==
    BatchShown =>
        \A i \in 1..Len(uploaded_file) :
           data["Lindegaard Ratio"][i] = OwnLindegaard(Row(data, i))

\* C10: for the same two records the manual table and the batch table hold
\* the same derived fields in every row.
C10_ManualEqualsBatch ==
    /\ ManualShown =>
          LET batch == BatchData(<<[c \in InputColumns |-> WidgetRecord(widgets, 1)[c].n],
                                   [c \in InputColumns |-> WidgetRecord(widgets, 2)[c].n]>>)
          IN  \A c \in AllDerived : results[c] = batch[c]
    /\ (BatchShown /\ Len(uploaded_file) = 2
          /\ \A i \in 1..2 : \A c \in InputColumns : uploaded_file[i][c] >= 0) =>
          LET manual == ManualResults(
                  [k \in Keys |->
                     CASE k = "psv_ica_r" -> Float(uploaded_file[1]["PSV_ICA"])
                       [] k = "psv_cca_r" -> Float(uploaded_file[1]["PSV_CCA"])
                       [] k = "psv_acm_r" -> Float(uploaded_file[1]["PSV_MCA"])
                       [] k = "edv_acm_r" -> Float(uploaded_file[1]["EDV_MCA"])
                       [] k = "psv_ica_l" -> Float(uploaded_file[2]["PSV_ICA"])
                       [] k = "psv_cca_l" -> Float(uploaded_file[2]["PSV_CCA"])
                       [] k = "psv_acm_l" -> Float(uploaded_file[2]["PSV_MCA"])
                       [] k = "edv_acm_l" -> Float(uploaded_file[2]["EDV_MCA"])])
          IN  \A c \in AllDerived : data[c] = manual[c]

\* the permutations of 1..n
RowPermutations(n) ==
    {p \in [1..n -> 1..n] : \A i, j \in 1..n : p[i] = p[j] => i = j}

\* C8: the batch table has one row per record of the file, in file order,
\* and the table of a permuted file is the same permutation of the table.
C8_OrderAndPermutation ==
    BatchShown =>
        LET N == Len(uploaded_file) IN
        /\ \A c \in DOMAIN data : Len(data[c]) = N
        /\ \A i \in 1..N : \A c \in InputColumns :
              data[c][i] = Float(uploaded_file[i][c])
        /\ \A p \in RowPermutations(N) :
              LET permuted == BatchData([i \in 1..N |-> uploaded_file[p[i]]])
              IN  \A c \in DOMAIN data : \A i \in 1..N :
                     permuted[c][i] = data[c][p[i]]

C8_Witness ==
    /\ BatchShown
    /\ Len(uploaded_file) >= 2
    /\ uploaded_file[1] # uploaded_file[2]
    /\ data["ICA/CCA Ratio"][1] # data["ICA/CCA Ratio"][2]
    /\ data["PSV_CCA"][1] = Float(uploaded_file[1]["PSV_CCA"])

====
